---------------------------- MODULE Spec2Model ----------------------------
(***************************************************************************)
(* A model of the ultimate-framework-factory template materialization      *)
(* engine: the RegexMatch substitution transform (lib/transforms/          *)
(* regex-match.js), the directory walker and the copy pipeline of FileUtil *)
(* (lib/utils/file-util.js), the destination path of the run action        *)
(* (lib/actions/run.js) and the entry point (bin/uff.js).                  *)
(*                                                                         *)
(* Text is modelled at the level of single bytes and UTF-16 code units:    *)
(* a buffer is a sequence of bytes, a JavaScript string a sequence of      *)
(* characters, each written as a one-element TLA+ string.  ASCII bytes and *)
(* characters share their spelling ("{", "A"); "xFF" is the byte 0xFF,     *)
(* which no UTF-8 text holds, and "uFFFD" is the replacement character.    *)
(***************************************************************************)
EXTENDS Integers, Sequences, FiniteSets, TLC

(***************************************************************************)
(* Bounds of the model.                                                    *)
(***************************************************************************)
\* A file's content is the concatenation of at most MaxPieces pieces.
MaxPieces == 2
\* A VariableSet holds at most MaxVars entries.
MaxVars == 2
\* Bytes a read stream delivers per chunk (highWaterMark, scaled down).
ReadSize == 4

(***************************************************************************)
(* Sequences of characters.                                                *)
(***************************************************************************)
RECURSIVE Concat(_)
\* Buffer.concat / Array.join(''): the concatenation of a sequence of sequences.
Concat(ss) == IF ss = <<>> THEN <<>> ELSE Head(ss) \o Concat(Tail(ss))

RECURSIVE Repeat(_, _)
Repeat(c, n) == IF n <= 0 THEN <<>> ELSE <<c>> \o Repeat(c, n - 1)

\* Whether the literal lit occurs in s starting at index i.
OccursAt(lit, s, i) ==
    /\ i + Len(lit) - 1 <= Len(s)
    /\ \A k \in 1..Len(lit) : s[i + k - 1] = lit[k]

\* String.prototype.includes on sequences of characters.
Includes(s, lit) == \E i \in 1..(Len(s) + 1) : OccursAt(lit, s, i)

Min(a, b) == IF a <= b THEN a ELSE b

\* The set of the elements of a sequence.
Range(seq) == {seq[k] : k \in 1..Len(seq)}

(***************************************************************************)
(* UTF-8.  Buffer.toString() decodes bytes into characters and replaces    *)
(* every byte that is not part of a well-formed sequence by U+FFFD;        *)
(* Buffer.from(string) encodes U+FFFD as the three bytes EF BF BD.  The    *)
(* inputs of the model hold ASCII bytes and the ill-formed byte 0xFF.      *)
(***************************************************************************)
IllFormedBytes == {"xFF"}

RECURSIVE Utf8Decode(_)
Utf8Decode(bytes) ==
    IF bytes = <<>> THEN <<>>
    ELSE (IF Head(bytes) \in IllFormedBytes THEN <<"uFFFD">> ELSE <<Head(bytes)>>)
         \o Utf8Decode(Tail(bytes))

RECURSIVE Utf8Encode(_)
Utf8Encode(chars) ==
    IF chars = <<>> THEN <<>>
    ELSE (IF Head(chars) = "uFFFD" THEN <<"xEF", "xBF", "xBD">> ELSE <<Head(chars)>>)
         \o Utf8Encode(Tail(chars))

(***************************************************************************)
(* Regular expressions.  A PlaceholderPattern of the model has the shape   *)
(* of the default one: two braces, one or more characters of a class, two  *)
(* braces.  It is a record [cls, global]: the class and the g flag.        *)
(***************************************************************************)
Digits == {"1"}
DigitVal == [c \in Digits |-> 1]
\* The members of [A-Z0-9] in the model's alphabet.
ClassAZ09 == {"A", "B"} \cup Digits

\* /{{[A-Z0-9]+}}/g
DEFAULT_REGEX == [cls |-> ClassAZ09, global |-> TRUE]

\* new RegExp(source): no flags are passed, so the result is never global.
NewRegExp(source) == [cls |-> source.cls, global |-> FALSE]

\* args.opts.pattern: absent, or the source text of a pattern.  The --pattern
\* values of the model are the default pattern's own source text.
NoPattern == [given |-> FALSE, cls |-> {}]
PatternSources == {[given |-> TRUE, cls |-> ClassAZ09]}

RECURSIVE RunLen(_, _, _)
\* The length of the longest run of class characters of s starting at index i.
RunLen(s, i, cls) ==
    IF i <= Len(s) /\ s[i] \in cls THEN 1 + RunLen(s, i + 1, cls) ELSE 0

\* The length of the pattern's match starting at index i of s, 0 when none.
\* The class holds no brace, so only the longest run can be followed by "}}".
MatchLenAt(s, i, cls) ==
    LET n == RunLen(s, i + 2, cls)
    IN  IF /\ i + 1 <= Len(s)
           /\ s[i] = "{" /\ s[i + 1] = "{"
           /\ n >= 1
           /\ i + 3 + n <= Len(s)
           /\ s[i + 2 + n] = "}" /\ s[i + 3 + n] = "}"
        THEN n + 4 ELSE 0

RECURSIVE ScanFrom(_, _, _)
\* The non-overlapping matches of the pattern in s from index i on, in order.
ScanFrom(s, i, cls) ==
    IF i > Len(s) THEN <<>>
    ELSE LET m == MatchLenAt(s, i, cls)
         IN  IF m > 0 THEN <<SubSeq(s, i, i + m - 1)>> \o ScanFrom(s, i + m, cls)
             ELSE ScanFrom(s, i + 1, cls)

\* String.prototype.match(regex): with the g flag every match, without it the
\* first match only (followed by its capture groups, of which the model's
\* patterns have none).  null is modelled as the empty sequence.
StringMatch(s, regex) ==
    LET all == ScanFrom(s, 1, regex.cls)
    IN  IF regex.global \/ all = <<>> THEN all ELSE <<all[1]>>

\* new RegExp(key).test(str) for a key of letters and digits: an unanchored
\* search for the key.
KeyRegexTest(key, str) == Includes(str, key)

RECURSIVE DecimalValue(_)
DecimalValue(ds) ==
    IF ds = <<>> THEN 0
    ELSE 10 * DecimalValue(SubSeq(ds, 1, Len(ds) - 1)) + DigitVal[ds[Len(ds)]]

\* new RegExp(token, 'g') for a token "{{" name "}}": what the regular
\* expression matches, as a literal.  A brace that starts no quantifier is a
\* literal character; when the name is all digits, "{name}" is a quantifier of
\* the first brace, and the expression matches name-many "{" followed by "}".
TokenRegexLiteral(token) ==
    LET name == SubSeq(token, 3, Len(token) - 2)
    IN  IF \A k \in 1..Len(name) : name[k] \in Digits
        THEN Repeat("{", DecimalValue(name)) \o <<"}">>
        ELSE token

RECURSIVE GetSubstitution(_, _)
\* The replacement text of String.prototype.replace: "$$" stands for "$" and
\* "$&" for the matched substring; every other character stands for itself.
GetSubstitution(value, matched) ==
    IF value = <<>> THEN <<>>
    ELSE IF Len(value) >= 2 /\ value[1] = "$" /\ value[2] = "$"
         THEN <<"$">> \o GetSubstitution(SubSeq(value, 3, Len(value)), matched)
    ELSE IF Len(value) >= 2 /\ value[1] = "$" /\ value[2] = "&"
         THEN matched \o GetSubstitution(SubSeq(value, 3, Len(value)), matched)
    ELSE <<Head(value)>> \o GetSubstitution(Tail(value), matched)

RECURSIVE ReplaceFrom(_, _, _, _)
ReplaceFrom(s, i, lit, value) ==
    IF i > Len(s) THEN <<>>
    ELSE IF OccursAt(lit, s, i)
         THEN GetSubstitution(value, lit) \o ReplaceFrom(s, i + Len(lit), lit, value)
         ELSE <<s[i]>> \o ReplaceFrom(s, i + 1, lit, value)

\* fileString.replace(new RegExp(matchStr, 'g'), value)
StringReplaceAll(s, matchStr, value) ==
    ReplaceFrom(s, 1, TokenRegexLiteral(matchStr), value)

(***************************************************************************)
(* RegexMatch: the substitution transform.                                 *)
(***************************************************************************)
\* this.chunks before the first chunk arrives (undefined).  Once a chunk has
\* been pushed the array is never empty, so the empty sequence stands for it.
Undefined == <<>>

\* The constructor: the default pattern unless args.opts.pattern is set.
RegexMatchPattern(optsPattern) ==
    IF optsPattern.given THEN NewRegExp(optsPattern) ELSE DEFAULT_REGEX

\* A transform that keeps the chunk that came last only.
TransformChunks_KeepLast(chunks, chunk) == <<chunk>>

\* transform(chunk): the chunk is saved, nothing is passed downstream.
TransformChunks(chunks, chunk) ==
    IF chunks = Undefined THEN <<chunk>> ELSE Append(chunks, chunk)

\* A transform that passes every chunk on as it comes.
TransformOutput_PassThrough(chunk) == <<chunk>>

\* What transform hands to its callback for the stream to pass on: callback()
\* is called without data.
TransformOutput(chunk) == <<>>

\* Whether some variable name, as a regular expression, matches matchStr.
SomeVarMatches(vars, matchStr) ==
    \E v \in 1..Len(vars) : KeyRegexTest(vars[v].name, matchStr)

RECURSIVE FoundFor(_, _, _)
\* The records one matchStr adds to foundMatches, over the variables from
\* index v on: foundMatches holds records and includes() is asked for a
\* string, so every matching variable adds its record.
FoundFor(vars, v, matchStr) ==
    IF v > Len(vars) THEN <<>>
    ELSE (IF KeyRegexTest(vars[v].name, matchStr)
          THEN <<[matchStr |-> matchStr, value |-> vars[v].value]>> ELSE <<>>)
         \o FoundFor(vars, v + 1, matchStr)

RECURSIVE FoundMatches(_, _)
FoundMatches(vars, match) ==
    IF match = <<>> THEN <<>>
    ELSE FoundFor(vars, 1, Head(match)) \o FoundMatches(vars, Tail(match))

RECURSIVE NotFound(_, _)
\* match.filter(...): the matches no variable name matches, in order.
NotFound(vars, match) ==
    IF match = <<>> THEN <<>>
    ELSE (IF SomeVarMatches(vars, Head(match)) THEN <<>> ELSE <<Head(match)>>)
         \o NotFound(vars, Tail(match))

RECURSIVE ApplyFound(_, _)
\* foundMatches.forEach: one global replace per record, each on the result
\* of the one before.
ApplyFound(fileString, found) ==
    IF found = <<>> THEN fileString
    ELSE ApplyFound(StringReplaceAll(fileString, Head(found).matchStr, Head(found).value),
                    Tail(found))

\* Whether flush throws: some match is left after the filter.
FlushThrows(remaining) == Len(remaining) > 0

\* flush(callback): [threw, data, unresolved].  data is the buffer passed to
\* the callback; when flush throws the callback is never called.
Flush(chunks, pattern, vars) ==
    IF chunks = Undefined
    THEN [threw |-> FALSE, data |-> <<>>, unresolved |-> <<>>]
    ELSE LET fileString == Utf8Decode(Concat(chunks))
             match == StringMatch(fileString, pattern)
             remaining == NotFound(vars, match)
         IN  IF match = <<>>
             THEN [threw |-> FALSE, data |-> Utf8Encode(fileString), unresolved |-> <<>>]
             ELSE IF FlushThrows(remaining)
             THEN [threw |-> TRUE, data |-> <<>>, unresolved |-> remaining]
             ELSE [threw |-> FALSE,
                   data |-> Utf8Encode(ApplyFound(fileString, FoundMatches(vars, match))),
                   unresolved |-> <<>>]


(***************************************************************************)
(* The state.                                                              *)
(***************************************************************************)
VARIABLES
    \* One RegexMatch instance fed from one file (SpecSubst).
    input,        \* the bytes of the source file
    optsPattern,  \* args.opts.pattern
    argVars,      \* args.vars, as [name, value] records in Object.keys order
    readPos,      \* the bytes the read stream has delivered so far
    chunks,       \* this.chunks
    flushed,      \* whether flush has run
    pushed,       \* the buffers handed to flush's callback, in order
    thrown,       \* the matches listed by the error flush threw, <<>> if none
    \* One call of getTemplateFilePaths / getDirRecursive (SpecWalk).
    tree,         \* the file tree below basePath: a set of [path, isDir] nodes
    files,        \* the working list of dirents
    idx,          \* the for loop's i
    walkPc,       \* where the call stands
    walkResult,   \* the paths the call resolved with
    hasDirent,    \* whether node has fs.Dirent (10.10.0 and later)
    noRead,       \* the directories of the tree that readdir fails on
    noStat,       \* the entries of the tree that fs.stat fails on
    readLog,      \* the directories readdir has been called on, in order
    syncPc,       \* where the call of getDirRecursiveSync on the tree stands
    syncResult,   \* the paths that call returned
    \* The destination the run action derives for one file (SpecDest).
    templateName, \* args.args[1], as characters
    relPath,      \* the file's path below the template root, as segments
    optsDest,     \* args.opts.dest, as characters (<<>> when absent)
    destDir,      \* exec's destDir
    dest,         \* exec's dest for the file
    destPc,       \* where exec stands
    \* One run of the run action from its filePaths.map on (SpecRun).
    filePaths,    \* the source files: [name, content] records, in listing order
    textExts,     \* TEXT_EXTENSIONS
    task,         \* per file, the state of its transformCopy call
    destBefore,   \* per file, its destination file before the run
    destFs,       \* per file, its destination file: [exists, data]
    execState,    \* the promise exec returned
    procState,    \* the node process: running or exited
    exitCause,    \* why the process exited
    \* Callers of makeDir on one directory chain (SpecMkdir).
    mkRecursive,  \* whether fs.mkdir honours the recursive option
    dirFs,        \* what lies at each path of the chain: "none", "dir" or "file"
    mkTarget,     \* per caller, the dirPath it called makeDir with
    mkStack,      \* per caller, its makeDir calls, the outermost first
    mkStatus,     \* per caller, the state of the promise its call returned
    mkSeen,       \* per caller, the error codes fs.mkdir has called back with
    \* One call of getExtname (SpecExt).
    extName,      \* the base name of the file path
    extResult,    \* what the call returned
    extPc,        \* where the call stands
    \* The entry point: validate, then load and start the action (SpecArgs).
    posArgs,      \* this.args: the positional arguments, each as characters
    optH,         \* whether this.opts.h is truthy
    optHelp,      \* whether this.opts.help is truthy
    templates,    \* the entries of TEMPLATE_DIR: [name, isDir] records
    templatesErr, \* whether fs.readdir fails on TEMPLATE_DIR
    caseSensitive,\* whether file names differing in case name different files
    mainPc,       \* where the entry point stands
    mainError     \* what the entry point failed with, "none" if nothing

substVars == <<input, optsPattern, argVars, readPos, chunks, flushed, pushed, thrown>>
walkVars == <<tree, files, idx, walkPc, walkResult, hasDirent, noRead, noStat, readLog,
              syncPc, syncResult>>
destVars == <<templateName, relPath, optsDest, destDir, dest, destPc>>
runVars == <<filePaths, textExts, task, destBefore, destFs, execState, procState, exitCause>>
mkVars == <<mkRecursive, dirFs, mkTarget, mkStack, mkStatus, mkSeen>>
extVars == <<extName, extResult, extPc>>
argsVars == <<posArgs, optH, optHelp, templates, templatesErr, caseSensitive, mainPc, mainError>>
allVars == <<substVars, walkVars, destVars, runVars, mkVars, extVars, argsVars>>

\* The variables each part of the model leaves alone.
notSubst == <<walkVars, destVars, runVars, mkVars, extVars, argsVars>>
notWalk == <<substVars, destVars, runVars, mkVars, extVars, argsVars>>
notDest == <<substVars, walkVars, runVars, mkVars, extVars, argsVars>>
notRun == <<substVars, walkVars, destVars, mkVars, extVars, argsVars>>
notExt == <<substVars, walkVars, destVars, runVars, mkVars, argsVars>>
notMk == <<substVars, walkVars, destVars, runVars, extVars, argsVars>>
notArgs == <<substVars, walkVars, destVars, runVars, mkVars, extVars>>

(***************************************************************************)
(* The inputs of the substitution transform.                               *)
(***************************************************************************)
Token(name) == <<"{", "{">> \o name \o <<"}", "}">>

\* The pieces file contents are made of: tokens, plain text, a lone brace and
\* a byte that is not UTF-8.
Pieces ==
    { Token(<<"A">>), Token(<<"B">>), Token(<<"A", "B">>), Token(<<"1">>),
      <<"x">>, <<"{">>, <<"xFF">> }

RECURSIVE PieceSeqs(_)
PieceSeqs(n) ==
    IF n = 0 THEN {<<>>}
    ELSE LET shorter == PieceSeqs(n - 1)
         IN  shorter \cup {Append(ps, p) : ps \in {q \in shorter : Len(q) = n - 1}, p \in Pieces}

Contents == {Concat(ps) : ps \in PieceSeqs(MaxPieces)}

\* The variables a caller may supply.  Values are inserted by replace(), so
\* one holds a token and one a "$&"; the name AB comes with either a "$&" or
\* a plain value.
VarPool ==
    { [name |-> <<"A">>, value |-> <<"x">>],
      [name |-> <<"B">>, value |-> Token(<<"A">>)],
      [name |-> <<"A", "B">>, value |-> <<"$", "&">>],
      [name |-> <<"A", "B">>, value |-> <<"z">>],
      [name |-> <<"1">>, value |-> <<"y">>] }

\* A property name that is an array index: Object.keys lists these first.
IsIndexKey(name) == \A k \in 1..Len(name) : name[k] \in Digits

RECURSIVE VarSeqs(_)
VarSeqs(n) ==
    IF n = 0 THEN {<<>>}
    ELSE LET shorter == VarSeqs(n - 1)
             Next(vs) == {e \in VarPool : /\ \A k \in 1..Len(vs) : vs[k].name # e.name
                                          /\ IsIndexKey(e.name) => vs = <<>>}
         IN  shorter \cup
             UNION { {Append(vs, e) : e \in Next(vs)} : vs \in {q \in shorter : Len(q) = n - 1} }

\* The objects args.vars can be, each as its entries in Object.keys order:
\* names are unique, index keys come first and the others in insertion order.
VariableSets == VarSeqs(MaxVars)

(***************************************************************************)
(* SpecWalk: getTemplateFilePaths / getDirRecursive on one file tree.      *)
(* A path is the sequence of its segments, so path.join is concatenation.  *)
(***************************************************************************)
\* The entry names of the model, in the order readdir lists them.
NameOrder == <<"a", "b">>
\* Entries lie at most MaxDepth levels below basePath.
MaxDepth == 2
BasePath == <<"templates", "t">>

RECURSIVE TreesBelow(_, _)
\* Every tree below the directory dir whose entries lie at most d levels down:
\* each name is absent, a file, or a directory with a tree below it.
TreesBelow(dir, d) ==
    IF d = 0 THEN {{}}
    ELSE LET Entry(n) ==
                 LET p == Append(dir, n)
                 IN  {{}} \cup {{[path |-> p, isDir |-> FALSE]}}
                     \cup {{[path |-> p, isDir |-> TRUE]} \cup sub : sub \in TreesBelow(p, d - 1)}
         IN  {ea \cup eb : ea \in Entry(NameOrder[1]), eb \in Entry(NameOrder[2])}

Trees == TreesBelow(<<>>, MaxDepth)

RECURSIVE Listing(_, _, _)
\* The dirents of directory dir, from name index k on: [name, isDir].
Listing(t, dir, k) ==
    IF k > Len(NameOrder) THEN <<>>
    ELSE LET here == {n \in t : n.path = Append(dir, NameOrder[k])}
         IN  (IF here = {} THEN <<>>
              ELSE <<[name |-> <<NameOrder[k]>>, isDir |-> (CHOOSE n \in here : TRUE).isDir]>>)
             \o Listing(t, dir, k + 1)

\* FileUtil.readdir(path.join(basePath, dir), true)
readdir(t, dir) == Listing(t, dir, 1)

\* containsDir(dirents)
containsDir(dirents) == \E k \in 1..Len(dirents) : dirents[k].isDir

\* A walker that forgets the directory a listing came from.
SubFileName_Bare(dirName, subName) == subName

\* subFile.name = path.join(file.name, subFile.name)
SubFileName(dirName, subName) == dirName \o subName

\* subFiles.map(...): every dirent of the listing gets the directory's name
\* in front of its own.
SubFiles(t, dirName) ==
    LET listing == readdir(t, dirName)
    IN  [k \in 1..Len(listing) |->
            [name |-> SubFileName(dirName, listing[k].name), isDir |-> listing[k].isDir]]

\* A splice that removes nothing.
Splice_KeepAll(list, i) == list

\* files.splice(i, 1)
Splice(list, i) == SubSeq(list, 1, i - 1) \o SubSeq(list, i + 1, Len(list))

\* files.map((fileData) => path.join(basePath, fileData.name))
FullPaths(list) == [k \in 1..Len(list) |-> BasePath \o list[k].name]

\* The directories of a tree, basePath itself (<<>>) included.
Dirs(t) == {<<>>} \cup {n.path : n \in {m \in t : m.isDir}}

RECURSIVE SyncWhile(_, _, _)
RECURSIVE SyncFor(_, _, _, _)
\* getDirRecursiveSync from its while loop on: [threw, paths].
SyncWhile(t, unreadable, list) ==
    IF containsDir(list) THEN SyncFor(t, unreadable, list, 1)
    ELSE [threw |-> FALSE, paths |-> FullPaths(list)]

\* The for loop of getDirRecursiveSync from index i on.
SyncFor(t, unreadable, list, i) ==
    IF i > Len(list) THEN SyncWhile(t, unreadable, list)
    ELSE IF ~list[i].isDir THEN SyncFor(t, unreadable, list, i + 1)
    ELSE IF list[i].name \in unreadable THEN [threw |-> TRUE, paths |-> <<>>]
    ELSE SyncFor(t, unreadable, Splice(list, i) \o SubFiles(t, list[i].name), i)

\* getDirRecursiveSync(basePath): [threw, paths].  fs.readdirSync(dir,
\* {withFileTypes: true}) gives dirents where node has fs.Dirent (dirent is
\* TRUE); before, the option is ignored and the names come as strings, so
\* the first dirent.isDirectory() is a TypeError (an empty listing asks for
\* none).  FileUtil.readdir makes up for the missing dirents with fs.stat;
\* getDirRecursiveSync reads the directories itself.
GetDirRecursiveSync(t, unreadable, dirent) ==
    IF <<>> \in unreadable THEN [threw |-> TRUE, paths |-> <<>>]
    ELSE IF ~dirent /\ readdir(t, <<>>) # <<>>
         THEN [threw |-> TRUE, paths |-> <<>>]
    ELSE SyncWhile(t, unreadable, readdir(t, <<>>))

\* How the promise of FileUtil.readdir(path.join(basePath, dir), true)
\* settles.  An error of fs.readdir rejects it.  Where node has fs.Dirent
\* the listing resolves it.  Before, every entry is given to fs.stat and the
\* stats are awaited inside the asynchronous callback of fs.readdir: an
\* entry that cannot be stat-ed rejects the callback's own promise, which
\* nobody handles, and the promise of readdir stays pending.
ReaddirSettles(t, dir, dirent, unreadable, unstattable) ==
    IF dir \in unreadable THEN "reject"
    ELSE IF dirent THEN "resolve"
    ELSE IF \E k \in 1..Len(readdir(t, dir)) : (dir \o readdir(t, dir)[k].name) \in unstattable
         THEN "pending"
    ELSE "resolve"

\* Where the walk goes when the readdir it awaits does not resolve: a
\* rejection is thrown out of getDirRecursive, whose promise rejects; on a
\* promise that stays pending the walk waits for ever.
AwaitReaddir(settled) == IF settled = "reject" THEN "failed" ELSE "stuck"

WalkInit ==
    /\ tree \in Trees
    /\ files = <<>>
    /\ idx = 0
    /\ walkPc = "start"
    /\ walkResult = <<>>
    /\ hasDirent \in BOOLEAN
    /\ noRead \in {{}} \cup {{d} : d \in Dirs(tree)}
    /\ noStat \in IF hasDirent \/ noRead # {} THEN {{}}
                  ELSE {{}} \cup {{n.path} : n \in tree}
    /\ readLog = <<>>
    /\ syncPc = "call"
    /\ syncResult = <<>>

\* No walk is under way.
WalkIdle ==
    /\ tree = {} /\ files = <<>> /\ idx = 0 /\ walkPc = "idle" /\ walkResult = <<>>
    /\ hasDirent = FALSE /\ noRead = {} /\ noStat = {} /\ readLog = <<>>
    /\ syncPc = "idle" /\ syncResult = <<>>

\* let files = await this.readdir(basePath, true)
walkReadRoot ==
    /\ walkPc = "start"
    /\ readLog' = Append(readLog, <<>>)
    /\ LET settled == ReaddirSettles(tree, <<>>, hasDirent, noRead, noStat)
       IN  IF settled = "resolve"
           THEN /\ files' = readdir(tree, <<>>)
                /\ walkPc' = "while"
           ELSE /\ walkPc' = AwaitReaddir(settled)
                /\ UNCHANGED files
    /\ UNCHANGED <<tree, idx, walkResult, hasDirent, noRead, noStat, syncPc, syncResult>>
    /\ UNCHANGED notWalk

\* while (containsDir(files)): enter the for loop, or map and return.
walkWhile ==
    /\ walkPc = "while"
    /\ IF containsDir(files)
       THEN /\ idx' = 1
            /\ walkPc' = "for"
            /\ UNCHANGED walkResult
       ELSE /\ walkResult' = FullPaths(files)
            /\ walkPc' = "done"
            /\ UNCHANGED idx
    /\ UNCHANGED <<tree, files, hasDirent, noRead, noStat, readLog, syncPc, syncResult>>
    /\ UNCHANGED notWalk

\* One pass of the for loop's body (idx is i + 1): a directory is read,
\* spliced out and its listing appended, and i stays on the same index.
walkFor ==
    /\ walkPc = "for"
    /\ IF idx > Len(files)
       THEN /\ walkPc' = "while"
            /\ UNCHANGED <<files, idx, readLog>>
       ELSE IF ~files[idx].isDir
       THEN /\ idx' = idx + 1
            /\ UNCHANGED <<files, walkPc, readLog>>
       ELSE /\ readLog' = Append(readLog, files[idx].name)
            /\ LET settled == ReaddirSettles(tree, files[idx].name, hasDirent, noRead, noStat)
               IN  IF settled = "resolve"
                   THEN /\ files' = Splice(files, idx) \o SubFiles(tree, files[idx].name)
                        /\ UNCHANGED <<idx, walkPc>>
                   ELSE /\ walkPc' = AwaitReaddir(settled)
                        /\ UNCHANGED <<files, idx>>
    /\ UNCHANGED <<tree, walkResult, hasDirent, noRead, noStat, syncPc, syncResult>>
    /\ UNCHANGED notWalk

\* getDirRecursiveSync(basePath) is called on the same tree, once the
\* asynchronous walk is over or can go no further, and returns or throws.
callGetDirRecursiveSync ==
    /\ walkPc \in {"done", "failed", "stuck"}
    /\ syncPc = "call"
    /\ LET r == GetDirRecursiveSync(tree, noRead, hasDirent)
       IN  /\ syncPc' = IF r.threw THEN "failed" ELSE "done"
           /\ syncResult' = r.paths
    /\ UNCHANGED <<tree, files, idx, walkPc, walkResult, hasDirent, noRead, noStat, readLog>>
    /\ UNCHANGED notWalk

WalkNext == walkReadRoot \/ walkWhile \/ walkFor \/ callGetDirRecursiveSync

(***************************************************************************)
(* SpecDest: the destination path the run action derives for a file.       *)
(* Here a path is a string: a sequence of characters with "/" between its  *)
(* segments.                                                               *)
(***************************************************************************)
\* A relative path has at most MaxSegments segments.
MaxSegments == 2
Sep == "/"

\* TEMPLATE_DIR = path.join(ROOT_DIR, 'src', 'templates'), with a short root.
TEMPLATE_DIR == <<"/", "r", "/", "s", "r", "c", "/", "t", "e", "m", "p", "l", "a", "t", "e", "s">>
\* process.cwd()
Cwd == <<"/", "w">>

\* The template names and the entry names below a template of the model: the
\* names "t" and "ab" occur again as a directory and inside file names.
TemplateNames == { <<"t">>, <<"a", "b">> }
SegmentPool == { <<"t">>, <<"a", "b">>, <<"x">>, <<"t", ".", "x">>, <<"x", "t">> }

RECURSIVE SegmentSeqs(_)
SegmentSeqs(n) ==
    IF n = 0 THEN {<<>>}
    ELSE LET shorter == SegmentSeqs(n - 1)
         IN  shorter \cup {Append(q, g) : q \in {r \in shorter : Len(r) = n - 1}, g \in SegmentPool}

RelPaths == SegmentSeqs(MaxSegments) \ {<<>>}

RECURSIVE SplitPath(_, _)
\* The segments of a path string: string.split('/'), cur being the segment
\* that is being read.
SplitPath(str, cur) ==
    IF str = <<>> THEN <<cur>>
    ELSE IF Head(str) = Sep THEN <<cur>> \o SplitPath(Tail(str), <<>>)
         ELSE SplitPath(Tail(str), Append(cur, Head(str)))

RECURSIVE NormalSegments(_, _)
\* path.normalize on segments: empty and "." segments are dropped, ".." drops
\* the segment before it.
NormalSegments(segs, acc) ==
    IF segs = <<>> THEN acc
    ELSE IF Head(segs) = <<>> \/ Head(segs) = <<".">> THEN NormalSegments(Tail(segs), acc)
    ELSE IF Head(segs) = <<".", ".">>
         THEN NormalSegments(Tail(segs), IF acc = <<>> THEN acc ELSE SubSeq(acc, 1, Len(acc) - 1))
    ELSE NormalSegments(Tail(segs), Append(acc, Head(segs)))

RECURSIVE JoinSegments(_)
\* segments.join('/')
JoinSegments(segs) ==
    IF segs = <<>> THEN <<>>
    ELSE IF Len(segs) = 1 THEN Head(segs)
    ELSE Head(segs) \o <<Sep>> \o JoinSegments(Tail(segs))

\* path.join(a, b) for an absolute a: the two joined by "/" and normalized.
PathJoin(a, b) ==
    <<Sep>> \o JoinSegments(NormalSegments(SplitPath(a \o <<Sep>> \o b, <<>>), <<>>))

\* The source path getTemplateFilePaths returns for the file.
SourcePath(name, rel) == PathJoin(PathJoin(TEMPLATE_DIR, name), JoinSegments(rel))

\* Where the greedy ".+" of postNameRegex lets the template name start: the
\* last occurrence with a character before it and one after it (0 when none).
PostNameStart(str, name) ==
    LET starts == {i \in 2..Len(str) : OccursAt(name, str, i) /\ i + Len(name) <= Len(str)}
    IN  IF starts = {} THEN 0 ELSE CHOOSE i \in starts : \A j \in starts : j <= i

\* sourcePath.match(new RegExp(`.+${templateName}(.+)`))[1]
PostNameGroup(str, name) ==
    SubSeq(str, PostNameStart(str, name) + Len(name), Len(str))

DestInit ==
    /\ templateName \in TemplateNames
    /\ relPath \in RelPaths
    /\ optsDest \in {<<>>, <<"d">>}
    /\ destDir = <<>>
    /\ dest = <<>>
    /\ destPc = "start"

\* exec is not running.
DestIdle ==
    /\ templateName = <<>> /\ relPath = <<>> /\ optsDest = <<>>
    /\ destDir = <<>> /\ dest = <<>> /\ destPc = "idle"

\* let destDir = process.cwd(); if (args.opts.dest) destDir = path.join(...)
execDestDir ==
    /\ destPc = "start"
    /\ destDir' = IF optsDest # <<>> THEN PathJoin(Cwd, optsDest) ELSE Cwd
    /\ destPc' = "map"
    /\ UNCHANGED <<templateName, relPath, optsDest, dest>>
    /\ UNCHANGED notDest

\* let dest = path.join(destDir, sourcePath.match(postNameRegex)[1])
execDest ==
    /\ destPc = "map"
    /\ dest' = PathJoin(destDir, PostNameGroup(SourcePath(templateName, relPath), templateName))
    /\ destPc' = "done"
    /\ UNCHANGED <<templateName, relPath, optsDest, destDir>>
    /\ UNCHANGED notDest

DestNext == execDestDir \/ execDest

(***************************************************************************)
(* SpecRun: the run action from filePaths.map on.  Every file has its own  *)
(* transformCopy call; the calls are started together and their callbacks *)
(* interleave.  Each callback, with the promise reactions it sets off, is  *)
(* one step.                                                               *)
(***************************************************************************)
\* A run copies at most MaxFiles files.
MaxFiles == 2

\* TRANSFORM_BLACKLIST
TRANSFORM_BLACKLIST == { <<"g", "i", "t">> }

\* The lists text-extensions.json may hold: with and without the
\* blacklisted extension.
TextExtensionLists == { {<<"t", "x", "t">>}, {<<"t", "x", "t">>, <<"g", "i", "t">>} }

\* The source files of the model, in listing order: a blacklisted file, a
\* binary one, a text file whose token resolves, one whose token does not,
\* and an empty text file.
FilePool ==
    << [name |-> <<".", "g", "i", "t">>, content |-> Token(<<"B">>)],
       [name |-> <<"a", ".", "p", "n", "g">>, content |-> Token(<<"A">>) \o <<"xFF">>],
       [name |-> <<"a", ".", "t", "x", "t">>, content |-> Token(<<"A">>)],
       [name |-> <<"b", ".", "t", "x", "t">>, content |-> Token(<<"B">>)],
       [name |-> <<"c", ".", "t", "x", "t">>, content |-> <<"h">> \o Token(<<"A">>)],
       [name |-> <<"e", ".", "t", "x", "t">>, content |-> <<>>] >>

\* The runs of the model: which files of the pool the template holds.
FileLists ==
    { fl \in UNION {[1..n -> 1..Len(FilePool)] : n \in 1..MaxFiles} :
        \A j \in 1..(Len(fl) - 1) : fl[j] < fl[j + 1] }

\* The arguments of the run: no --pattern and one variable, A.
RunPattern == NoPattern
RunVars == << [name |-> <<"A">>, value |-> <<"x">>] >>

\* The index of the last "." of str, 0 when it has none.
LastDot(str) ==
    LET dots == {k \in 1..Len(str) : str[k] = "."}
    IN  IF dots = {} THEN 0 ELSE CHOOSE k \in dots : \A j \in dots : j <= k

\* path.extname of a base name: from its last "." on, and empty when there
\* is no "." or the only one leads the name.
PathExtname(base) ==
    IF LastDot(base) <= 1 THEN <<>> ELSE SubSeq(base, LastDot(base), Len(base))

\* FileUtil.getExtname: path.extname, or the whole base name when that is
\* empty, without one leading dot.
getExtname(base) ==
    LET ext == IF PathExtname(base) = <<>> THEN base ELSE PathExtname(base)
    IN  IF Len(ext) >= 2 /\ Head(ext) = "." THEN Tail(ext) ELSE ext

\* Classify without the plain copy: whatever is not blacklisted is piped.
Classify_NoCopy(name, exts) ==
    IF getExtname(name) \in TRANSFORM_BLACKLIST THEN "skip" ELSE "pipe"

\* Classify with the text list asked before the blacklist.
Classify_TextListFirst(name, exts) ==
    IF getExtname(name) \in exts THEN "pipe"
    ELSE IF getExtname(name) \in TRANSFORM_BLACKLIST THEN "skip"
    ELSE "copy"

\* What transformCopy does with a source once makeDir has resolved: the
\* blacklist is asked first, then TEXT_EXTENSIONS.
Classify(name, exts) ==
    IF getExtname(name) \in TRANSFORM_BLACKLIST THEN "skip"
    ELSE IF getExtname(name) \notin exts THEN "copy"
    ELSE "pipe"

\* A wait that is over with the first promise that resolves.
PromiseAnyResolved(t) == \E f \in DOMAIN t : t[f].pc = "resolved"

\* await Promise.all(promises): it resolves once every promise has resolved.
PromiseAllResolved(t) == \A f \in DOMAIN t : t[f].pc = "resolved"

Files == DOMAIN filePaths
Absent == [exists |-> FALSE, data |-> <<>>]

\* A transformCopy call that has just been made: fs.mkdir is in flight.
\* pc is where the call stands; the other fields are its streams:
\*   rs/readPos  the read stream and the bytes it has delivered,
\*   chunks      the RegexMatch instance's this.chunks,
\*   out         the buffers flush pushed into the write stream, not yet written,
\*   flushed     whether flush has run,
\*   ws          the write stream.
\* An exec that makes one RegexMatch and binds every file's transform and
\* flush to it.
RegexMatchOf_Shared(f) == 1

\* let regexMatch = new RegexMatch(args), inside the callback of
\* filePaths.map: the instance that the transform and flush of file f are
\* bound to is the one made for f.  task[i].chunks is this.chunks of the
\* instance made for file i.
RegexMatchOf(f) == f

NewTask ==
    [pc |-> "mkdir", rs |-> "none", readPos |-> 0, chunks |-> Undefined,
     out |-> <<>>, flushed |-> FALSE, ws |-> "none"]

\* A destination file with content no run of these inputs writes.
Stale == [exists |-> TRUE, data |-> <<"o">>]

\* What a run that succeeds leaves at the destination of a file: nothing for
\* a blacklisted file, the source content for a binary one, flush's output
\* for a text file.
RunOutput(file, exts) ==
    LET what == Classify(file.name, exts)
        r == Flush(<<file.content>>, RegexMatchPattern(RunPattern), RunVars)
    IN  IF what = "copy" THEN [exists |-> TRUE, data |-> file.content]
        ELSE IF what = "pipe" /\ ~r.threw THEN [exists |-> TRUE, data |-> r.data]
        ELSE Absent

\* What the destination of a file may hold before the run: nothing, what an
\* earlier run with the same inputs left, or something else.
DestsBefore(file, exts) == {Absent, Stale, RunOutput(file, exts)}

\* An open that keeps what the file holds (flags 'a').
OpenForWrite_Append(file) == [exists |-> TRUE, data |-> file.data]

\* fs.createWriteStream(dest) opens with flags 'w': the file is created, or
\* cut to length 0.
OpenForWrite(file) == [exists |-> TRUE, data |-> <<>>]

RunInit ==
    /\ \E fl \in FileLists : filePaths = [f \in DOMAIN fl |-> FilePool[fl[f]]]
    /\ textExts \in TextExtensionLists
    /\ task = [f \in DOMAIN filePaths |-> NewTask]
    /\ destBefore \in [DOMAIN filePaths -> {Absent, Stale} \cup
                           {RunOutput(filePaths[f], textExts) : f \in DOMAIN filePaths}]
    /\ \A f \in DOMAIN filePaths : destBefore[f] \in DestsBefore(filePaths[f], textExts)
    /\ destFs = destBefore
    /\ execState = "pending"
    /\ procState = "running"
    /\ exitCause = "none"

\* The run action is not running.
RunIdle ==
    /\ filePaths = <<>> /\ textExts = {} /\ task = <<>>
    /\ destBefore = <<>> /\ destFs = <<>>
    /\ execState = "idle" /\ procState = "idle" /\ exitCause = "none"

\* An error nobody catches (a stream's 'error' event without a listener, an
\* exception thrown inside a stream callback): node prints it and exits.
\* exec's promise is left pending.
UncaughtException ==
    /\ procState' = "exited"
    /\ exitCause' = "uncaughtException"
    /\ UNCHANGED execState

\* A rejection of a promise nobody awaits: the handler of bin/uff.js prints
\* it and calls process.exit(1).  exec's promise is left pending.
UnhandledRejection ==
    /\ procState' = "exited"
    /\ exitCause' = "unhandledRejection"
    /\ UNCHANGED execState

\* reject(err) in transformCopy: Promise.all rejects, the await in exec
\* throws, exec's promise rejects, the await in bin/uff.js throws, and the
\* rejection of the entry point's own promise reaches the handler, which
\* exits.
RejectRun ==
    /\ execState' = "rejected"
    /\ procState' = "exited"
    /\ exitCause' = "unhandledRejection"

\* await FileUtil.makeDir(path.dirname(dest)) resolves and the executor runs
\* on: a blacklisted source resolves at once, a non-text source starts
\* fs.copyFile, a text source gets its streams.
tcMakeDirDone(f) ==
    /\ procState = "running"
    /\ task[f].pc = "mkdir"
    /\ LET what == Classify(filePaths[f].name, textExts)
       IN  task' = [task EXCEPT ![f] =
                IF what = "skip" THEN [@ EXCEPT !.pc = "resolved"]
                ELSE IF what = "copy" THEN [@ EXCEPT !.pc = "copy"]
                ELSE [@ EXCEPT !.pc = "pipe", !.rs = "opening", !.ws = "opening"]]
    /\ UNCHANGED <<filePaths, textExts, destBefore, destFs, execState, procState, exitCause>>
    /\ UNCHANGED notRun

\* makeDir rejects: the await throws inside the promise executor, an async
\* function whose own promise nobody holds.  transformCopy's promise never
\* settles.
tcMakeDirFail(f) ==
    /\ procState = "running"
    /\ task[f].pc = "mkdir"
    /\ task' = [task EXCEPT ![f].pc = "failed"]
    /\ UnhandledRejection
    /\ UNCHANGED <<filePaths, textExts, destBefore, destFs>>
    /\ UNCHANGED notRun

\* fs.copyFile calls back without an error: resolve(res).
tcCopyDone(f) ==
    /\ procState = "running"
    /\ task[f].pc = "copy"
    /\ destFs' = [destFs EXCEPT ![f] = [exists |-> TRUE, data |-> filePaths[f].content]]
    /\ task' = [task EXCEPT ![f].pc = "resolved"]
    /\ UNCHANGED <<filePaths, textExts, destBefore, execState, procState, exitCause>>
    /\ UNCHANGED notRun

\* fs.copyFile calls back with an error: reject(err).
tcCopyFail(f) ==
    /\ procState = "running"
    /\ task[f].pc = "copy"
    /\ task' = [task EXCEPT ![f].pc = "rejected"]
    /\ RejectRun
    /\ UNCHANGED <<filePaths, textExts, destBefore, destFs>>
    /\ UNCHANGED notRun

\* The read stream opens the source.
readOpen(f) ==
    /\ procState = "running"
    /\ task[f].pc = "pipe" /\ task[f].rs = "opening"
    /\ task' = [task EXCEPT ![f].rs = "open"]
    /\ UNCHANGED <<filePaths, textExts, destBefore, destFs, execState, procState, exitCause>>
    /\ UNCHANGED notRun

\* The read stream fails (the source is missing or unreadable) and emits
\* 'error'; transformCopy listens for errors of the write stream only.
readFail(f) ==
    /\ procState = "running"
    /\ task[f].pc = "pipe" /\ task[f].rs \in {"opening", "open"}
    /\ task' = [task EXCEPT ![f].pc = "failed", ![f].rs = "error"]
    /\ UncaughtException
    /\ UNCHANGED <<filePaths, textExts, destBefore, destFs>>
    /\ UNCHANGED notRun

\* The read stream delivers the next chunk and the Transform stream calls
\* transform on the file's RegexMatch instance.
readChunk(f) ==
    /\ procState = "running"
    /\ task[f].pc = "pipe" /\ task[f].rs = "open"
    /\ task[f].readPos < Len(filePaths[f].content)
    /\ LET upto == Min(task[f].readPos + ReadSize, Len(filePaths[f].content))
       IN  task' = [task EXCEPT
               ![RegexMatchOf(f)].chunks =
                   TransformChunks(@, SubSeq(filePaths[f].content, task[f].readPos + 1, upto)),
               ![f].out = @ \o TransformOutput(SubSeq(filePaths[f].content, task[f].readPos + 1, upto)),
               ![f].readPos = upto]
    /\ UNCHANGED <<filePaths, textExts, destBefore, destFs, execState, procState, exitCause>>
    /\ UNCHANGED notRun

\* The read stream ends and the Transform stream calls flush: its buffer goes
\* to the write stream, or flush throws and nothing catches the error.
readEnd(f) ==
    /\ procState = "running"
    /\ task[f].pc = "pipe" /\ task[f].rs = "open"
    /\ task[f].readPos = Len(filePaths[f].content)
    /\ LET r == Flush(task[RegexMatchOf(f)].chunks, RegexMatchPattern(RunPattern), RunVars)
       IN  IF r.threw
           THEN /\ task' = [task EXCEPT ![f].pc = "failed", ![f].rs = "ended", ![f].flushed = TRUE]
                /\ UncaughtException
           ELSE /\ task' = [task EXCEPT ![f].rs = "ended", ![f].flushed = TRUE,
                                       ![f].out = Append(@, r.data)]
                /\ UNCHANGED <<execState, procState, exitCause>>
    /\ UNCHANGED <<filePaths, textExts, destBefore, destFs>>
    /\ UNCHANGED notRun

\* fs.createWriteStream(dest) opens the destination (flags 'w'): the file is
\* created, or cut to length 0.
writeOpen(f) ==
    /\ procState = "running"
    /\ task[f].pc = "pipe" /\ task[f].ws = "opening"
    /\ destFs' = [destFs EXCEPT ![f] = OpenForWrite(@)]
    /\ task' = [task EXCEPT ![f].ws = "open"]
    /\ UNCHANGED <<filePaths, textExts, destBefore, execState, procState, exitCause>>
    /\ UNCHANGED notRun

\* The write stream emits 'error', on opening or on writing: reject(err).
writeFail(f) ==
    /\ procState = "running"
    /\ task[f].pc = "pipe" /\ task[f].ws \in {"opening", "open"}
    /\ task' = [task EXCEPT ![f].pc = "rejected", ![f].ws = "error"]
    /\ RejectRun
    /\ UNCHANGED <<filePaths, textExts, destBefore, destFs>>
    /\ UNCHANGED notRun

\* The write stream writes what the Transform stream pushed.
writeData(f) ==
    /\ procState = "running"
    /\ task[f].pc = "pipe" /\ task[f].ws = "open"
    /\ task[f].out # <<>>
    /\ destFs' = [destFs EXCEPT ![f].data = @ \o Head(task[f].out)]
    /\ task' = [task EXCEPT ![f].out = Tail(@)]
    /\ UNCHANGED <<filePaths, textExts, destBefore, execState, procState, exitCause>>
    /\ UNCHANGED notRun

\* The Transform stream has ended and everything is written: the write stream
\* closes its file and emits 'close': resolve().
writeClose(f) ==
    /\ procState = "running"
    /\ task[f].pc = "pipe" /\ task[f].ws = "open"
    /\ task[f].flushed /\ task[f].out = <<>>
    /\ task' = [task EXCEPT ![f].pc = "resolved", ![f].ws = "closed"]
    /\ UNCHANGED <<filePaths, textExts, destBefore, destFs, execState, procState, exitCause>>
    /\ UNCHANGED notRun

\* await Promise.all(promises) returns; console.log('End of program'); exec
\* resolves and the process, with nothing left to do, exits.
execEnd ==
    /\ procState = "running"
    /\ execState = "pending"
    /\ PromiseAllResolved(task)
    /\ execState' = "resolved"
    /\ procState' = "exited"
    /\ exitCause' = "completed"
    /\ UNCHANGED <<filePaths, textExts, destBefore, task, destFs>>
    /\ UNCHANGED notRun

RunNext ==
    \/ \E f \in Files : tcMakeDirDone(f)
    \/ \E f \in Files : tcMakeDirFail(f)
    \/ \E f \in Files : tcCopyDone(f)
    \/ \E f \in Files : tcCopyFail(f)
    \/ \E f \in Files : readOpen(f)
    \/ \E f \in Files : readFail(f)
    \/ \E f \in Files : readChunk(f)
    \/ \E f \in Files : readEnd(f)
    \/ \E f \in Files : writeOpen(f)
    \/ \E f \in Files : writeFail(f)
    \/ \E f \in Files : writeData(f)
    \/ \E f \in Files : writeClose(f)
    \/ execEnd

(***************************************************************************)
(* SpecMkdir: FileUtil.makeDir, called by the copies of two files on the   *)
(* directories of one chain below the destination root.  A path is the     *)
(* sequence of its segments below the root; the root itself always exists. *)
(***************************************************************************)
\* The chain is MaxChain directories deep.
MaxChain == 2
ChainNames == <<"d", "a", "b", "c">>
Chain == SubSeq(ChainNames, 1, MaxChain)

\* Every path of the chain, the root (<<>>) included.
ChainPaths == {SubSeq(Chain, 1, k) : k \in 0..MaxChain}

\* The two copies that call makeDir.
Callers == {1, 2}

\* path.dirname: the root is its own parent.
Dirname(p) == IF p = <<>> THEN <<>> ELSE SubSeq(p, 1, Len(p) - 1)

\* The proper ancestors of a path.
Ancestors(p) == {SubSeq(p, 1, k) : k \in 0..(Len(p) - 1)}

\* The states the chain can be in before the run: the root is a directory,
\* and a path holds something only if its parent is a directory.
ChainStates ==
    { fs \in [ChainPaths -> {"none", "dir", "file"}] :
        /\ fs[<<>>] = "dir"
        /\ \A p \in ChainPaths \ {<<>>} : fs[p] # "none" => fs[Dirname(p)] = "dir" }

\* The code fs.mkdir(p, {recursive: true}, cb) calls back with.  Where the
\* option is honoured, missing ancestors are made and an existing directory
\* is no error; where it is ignored (node before 10.12), mkdir is the plain
\* system call.
FsMkdirCode(fs, p, recursive) ==
    IF recursive
    THEN IF \E q \in Ancestors(p) : fs[q] = "file" THEN "ENOTDIR"
         ELSE IF fs[p] = "file" THEN "EEXIST"
         ELSE "OK"
    ELSE IF fs[p] # "none" THEN "EEXIST"
         ELSE IF fs[Dirname(p)] = "none" THEN "ENOENT"
         ELSE IF fs[Dirname(p)] = "file" THEN "ENOTDIR"
         ELSE "OK"

\* The chain after a successful fs.mkdir(p).
FsMkdirDone(fs, p, recursive) ==
    [q \in ChainPaths |->
        IF q = p \/ (recursive /\ q \in Ancestors(p)) THEN "dir" ELSE fs[q]]

\* A makeDir that takes EEXIST for a failure like any other.
MakeDirOnError_EexistFails(code) ==
    IF code = "ENOENT" THEN "recurse" ELSE "reject"

\* What makeDir's callback does with an error: EEXIST counts as success,
\* ENOENT makes the parent and tries again, anything else rejects.
MakeDirOnError(code) ==
    IF code = "EEXIST" THEN "resolve"
    ELSE IF code = "ENOENT" THEN "recurse"
    ELSE "reject"

\* A makeDir call that has just been made: fs.mkdir is in flight.
NewCall(p) == [path |-> p, pc |-> "mkdir"]

\* The innermost call of a stack and the stack without it.
Top(stack) == stack[Len(stack)]
Pop(stack) == SubSeq(stack, 1, Len(stack) - 1)

RECURSIVE Resume(_)
\* The stack after its innermost call has resolved and been taken off: the
\* call that awaited it goes on.  After makeDir(path.dirname(dirPath)) it
\* calls makeDir(dirPath); after that one it resolves in its turn.
Resume(stack) ==
    IF stack = <<>> THEN <<>>
    ELSE IF Top(stack).pc = "parent"
         THEN Append(Append(Pop(stack), [Top(stack) EXCEPT !.pc = "retry"]),
                     NewCall(Top(stack).path))
         ELSE Resume(Pop(stack))

MkdirInit ==
    /\ mkRecursive \in BOOLEAN
    /\ dirFs \in ChainStates
    /\ mkTarget \in [Callers -> ChainPaths \ {<<>>}]
    /\ mkStack = [c \in Callers |-> <<NewCall(mkTarget[c])>>]
    /\ mkStatus = [c \in Callers |-> "pending"]
    /\ mkSeen = [c \in Callers |-> {}]

\* Nobody calls makeDir.
MkdirIdle ==
    /\ mkRecursive = FALSE /\ dirFs = <<>> /\ mkTarget = <<>>
    /\ mkStack = <<>> /\ mkStatus = <<>> /\ mkSeen = <<>>

\* Caller c has a makeDir call whose fs.mkdir is in flight.
MkdirInFlight(c) ==
    /\ mkStatus[c] = "pending"
    /\ mkStack[c] # <<>>
    /\ Top(mkStack[c]).pc = "mkdir"

\* The codes fs.mkdir can call back with now for caller c's innermost call:
\* what the chain gives, or EACCES, which the system may answer at any time.
MkdirCodes(c) ==
    {FsMkdirCode(dirFs, Top(mkStack[c]).path, mkRecursive), "EACCES"}

\* The stack of caller c is done with: its outermost call resolves.
Settle(c, stack) ==
    /\ mkStack' = [mkStack EXCEPT ![c] = stack]
    /\ mkStatus' = [mkStatus EXCEPT ![c] = IF stack = <<>> THEN "resolved" ELSE @]

\* fs.mkdir calls back without an error: resolve().
mkdirOk(c) ==
    /\ MkdirInFlight(c)
    /\ FsMkdirCode(dirFs, Top(mkStack[c]).path, mkRecursive) = "OK"
    /\ dirFs' = FsMkdirDone(dirFs, Top(mkStack[c]).path, mkRecursive)
    /\ Settle(c, Resume(Pop(mkStack[c])))
    /\ UNCHANGED <<mkRecursive, mkTarget, mkSeen>>
    /\ UNCHANGED notMk

\* fs.mkdir calls back with an error that counts as success: resolve().
mkdirErrResolve(c) ==
    /\ MkdirInFlight(c)
    /\ \E code \in MkdirCodes(c) \ {"OK"} :
        /\ MakeDirOnError(code) = "resolve"
        /\ mkSeen' = [mkSeen EXCEPT ![c] = @ \cup {code}]
    /\ Settle(c, Resume(Pop(mkStack[c])))
    /\ UNCHANGED <<mkRecursive, dirFs, mkTarget>>
    /\ UNCHANGED notMk

\* fs.mkdir calls back with ENOENT: await FileUtil.makeDir(path.dirname(dirPath)).
mkdirErrRecurse(c) ==
    /\ MkdirInFlight(c)
    /\ \E code \in MkdirCodes(c) \ {"OK"} :
        /\ MakeDirOnError(code) = "recurse"
        /\ mkSeen' = [mkSeen EXCEPT ![c] = @ \cup {code}]
    /\ mkStack' = [mkStack EXCEPT ![c] =
           Append(Append(Pop(@), [Top(@) EXCEPT !.pc = "parent"]),
                  NewCall(Dirname(Top(@).path)))]
    /\ UNCHANGED <<mkRecursive, dirFs, mkTarget, mkStatus>>
    /\ UNCHANGED notMk

\* fs.mkdir calls back with any other error: reject(err).  The promise of
\* the caller's own call rejects; a call made from the ENOENT branch is
\* awaited inside fs.mkdir's async callback, where the rejection is thrown
\* and nobody catches it, so the calls around it stay pending for good.
mkdirErrReject(c) ==
    /\ MkdirInFlight(c)
    /\ \E code \in MkdirCodes(c) \ {"OK"} :
        /\ MakeDirOnError(code) = "reject"
        /\ mkSeen' = [mkSeen EXCEPT ![c] = @ \cup {code}]
    /\ mkStatus' = [mkStatus EXCEPT ![c] =
           IF Len(mkStack[c]) = 1 THEN "rejected" ELSE "stuck"]
    /\ UNCHANGED <<mkRecursive, dirFs, mkTarget, mkStack>>
    /\ UNCHANGED notMk

MkdirNext ==
    \/ \E c \in Callers : mkdirOk(c)
    \/ \E c \in Callers : mkdirErrResolve(c)
    \/ \E c \in Callers : mkdirErrRecurse(c)
    \/ \E c \in Callers : mkdirErrReject(c)

(***************************************************************************)
(* SpecExt: FileUtil.getExtname on one base name.                          *)
(***************************************************************************)
\* A base name has at most MaxName characters.
MaxName == 4
NameChars == {".", "a", "g"}

\* The base names a file can have: "." and ".." name no file.
BaseNames ==
    UNION {[1..n -> NameChars] : n \in 1..MaxName} \ { <<".">>, <<".", ".">> }

ExtInit ==
    /\ extName \in BaseNames
    /\ extResult = <<>>
    /\ extPc = "call"

\* Nobody calls getExtname.
ExtIdle == extName = <<>> /\ extResult = <<>> /\ extPc = "idle"

\* FileUtil.getExtname(filePath) returns.
callGetExtname ==
    /\ extPc = "call"
    /\ extResult' = getExtname(extName)
    /\ extPc' = "done"
    /\ UNCHANGED extName
    /\ UNCHANGED notExt

ExtNext == callGetExtname

(***************************************************************************)
(* SpecArgs: bin/uff.js validates the arguments, then loads the action.    *)
(* A word is the sequence of its characters.                               *)
(***************************************************************************)
\* At most MaxArgs positional arguments are given.
MaxArgs == 2

\* String.prototype.toUpperCase and toLowerCase, letter by letter: the
\* letters of the model, each in lower and in upper case.
CasePairs ==
    { <<"r", "R">>, <<"u", "U">>, <<"n", "N">>, <<"h", "H">>, <<"e", "E">>,
      <<"l", "L">>, <<"p", "P">>, <<"t", "T">>, <<"x", "X">> }
UpperCaseOf(c) ==
    IF \E q \in CasePairs : q[1] = c THEN (CHOOSE q \in CasePairs : q[1] = c)[2] ELSE c
LowerCaseOf(c) ==
    IF \E q \in CasePairs : q[2] = c THEN (CHOOSE q \in CasePairs : q[2] = c)[1] ELSE c
toUpperCase(w) == [k \in 1..Len(w) |-> UpperCaseOf(w[k])]
toLowerCase(w) == [k \in 1..Len(w) |-> LowerCaseOf(w[k])]

\* get ACTIONS(): the keys of the pseudo-enum and the value of each.
ActionsEnum ==
    { [key |-> <<"R", "U", "N">>, value |-> <<"r", "u", "n">>],
      [key |-> <<"H", "E", "L", "P">>, value |-> <<"h", "e", "l", "p">>] }
ACTIONS_RUN == <<"r", "u", "n">>

\* this.ACTIONS[key] is truthy.
HasAction(key) == \E a \in ActionsEnum : a.key = key

\* The modules of lib/actions, by file name without the ".js".
ActionModules == { <<"r", "u", "n">>, <<"h", "e", "l", "p">> }

\* The words given on the command line.
ArgWords ==
    { <<"r", "u", "n">>, <<"R", "U", "N">>, <<"R", "u", "n">>,
      <<"h", "e", "l", "p">>, <<"H", "E", "L", "P">>,
      <<"t">>, <<"T">>, <<"x">> }

\* What TEMPLATE_DIR may hold: nothing, the template t, or t and a plain
\* file x beside it.
TemplateDirs ==
    { {},
      {[name |-> <<"t">>, isDir |-> TRUE]},
      {[name |-> <<"t">>, isDir |-> TRUE], [name |-> <<"x">>, isDir |-> FALSE]} }

\* The names FileUtil.readdir(TEMPLATE_DIR) resolves with.
ValidTemplates(entries) == {e.name : e \in entries}

\* args.validate(): "ok" when it resolves, else what it rejects with.
Validate(argv, h, help, entries, readErr) ==
    IF Len(argv) < 1 THEN "Invalid Number of Arguments"
    ELSE IF ~HasAction(toUpperCase(argv[1])) THEN "Invalid action"
    ELSE IF h \/ help THEN "ok"
    ELSE IF toLowerCase(argv[1]) = ACTIONS_RUN
         THEN IF Len(argv) < 2 THEN "Invalid number of Arguments"
              ELSE IF readErr THEN "readdir"
              ELSE IF argv[2] \notin ValidTemplates(entries) THEN "Invalid template"
              ELSE "ok"
    ELSE "ok"

\* Whether require(`../lib/actions/${name}.js`) finds a module: the file
\* name is looked up as the file system compares names.
ModuleFound(name, sensitive) ==
    \E m \in ActionModules : m = name \/ (~sensitive /\ toLowerCase(m) = toLowerCase(name))

RECURSIVE ArgLists(_)
ArgLists(n) ==
    IF n = 0 THEN {<<>>}
    ELSE ArgLists(n - 1) \cup
         {Append(l, w) : l \in {q \in ArgLists(n - 1) : Len(q) = n - 1}, w \in ArgWords}

ArgsInit ==
    /\ posArgs \in ArgLists(MaxArgs)
    /\ optH \in BOOLEAN
    /\ optHelp \in BOOLEAN
    /\ templates \in TemplateDirs
    /\ templatesErr \in BOOLEAN
    /\ caseSensitive \in BOOLEAN
    /\ mainPc = "start"
    /\ mainError = "none"

\* The entry point is not run.
ArgsIdle ==
    /\ posArgs = <<>> /\ optH = FALSE /\ optHelp = FALSE /\ templates = {}
    /\ templatesErr = FALSE /\ caseSensitive = FALSE /\ mainPc = "idle" /\ mainError = "none"

\* try { await args.validate() } catch (e) { ...; process.exit(1) }
validate ==
    /\ mainPc = "start"
    /\ LET r == Validate(posArgs, optH, optHelp, templates, templatesErr)
       IN  IF r = "ok"
           THEN /\ mainPc' = "validated"
                /\ UNCHANGED mainError
           ELSE /\ mainPc' = "exit1"
                /\ mainError' = r
    /\ UNCHANGED <<posArgs, optH, optHelp, templates, templatesErr, caseSensitive>>
    /\ UNCHANGED notArgs

\* let action = require(`../lib/actions/${args.args[0]}.js`): the module is
\* loaded, or require throws inside the async function, whose promise
\* rejects unhandled, and the handler of unhandledRejection exits.
requireAction ==
    /\ mainPc = "validated"
    /\ IF ModuleFound(posArgs[1], caseSensitive)
       THEN /\ mainPc' = "loaded"
            /\ UNCHANGED mainError
       ELSE /\ mainPc' = "exit1"
            /\ mainError' = "MODULE_NOT_FOUND"
    /\ UNCHANGED <<posArgs, optH, optHelp, templates, templatesErr, caseSensitive>>
    /\ UNCHANGED notArgs

\* With a help flag the action's help is printed; else action.exec(args).
startAction ==
    /\ mainPc = "loaded"
    /\ mainPc' = IF optH \/ optHelp THEN "help" ELSE "exec"
    /\ UNCHANGED <<posArgs, optH, optHelp, templates, templatesErr, caseSensitive, mainError>>
    /\ UNCHANGED notArgs

ArgsNext == validate \/ requireAction \/ startAction

(***************************************************************************)
(* SpecSubst: one file streamed through one RegexMatch instance.           *)
(***************************************************************************)
SubstInit ==
    /\ input \in Contents
    /\ optsPattern \in {NoPattern} \cup PatternSources
    /\ argVars \in VariableSets
    /\ readPos = 0
    /\ chunks = Undefined
    /\ flushed = FALSE
    /\ pushed = <<>>
    /\ thrown = <<>>

\* The read stream delivers the next chunk and the Transform stream calls
\* transform(chunk, encoding, callback).
transform ==
    /\ readPos < Len(input)
    /\ LET upto == Min(readPos + ReadSize, Len(input))
       IN  /\ chunks' = TransformChunks(chunks, SubSeq(input, readPos + 1, upto))
           /\ pushed' = pushed \o TransformOutput(SubSeq(input, readPos + 1, upto))
           /\ readPos' = upto
    /\ UNCHANGED <<input, optsPattern, argVars, flushed, thrown>>
    /\ UNCHANGED notSubst

\* The read stream has ended and the Transform stream calls flush(callback).
flush ==
    /\ readPos = Len(input)
    /\ ~flushed
    /\ LET r == Flush(chunks, RegexMatchPattern(optsPattern), argVars)
       IN  /\ pushed' = IF r.threw THEN pushed ELSE Append(pushed, r.data)
           /\ thrown' = r.unresolved
    /\ flushed' = TRUE
    /\ UNCHANGED <<input, optsPattern, argVars, readPos, chunks>>
    /\ UNCHANGED notSubst

\* No RegexMatch instance exists.
SubstIdle ==
    /\ input = <<>> /\ optsPattern = NoPattern /\ argVars = <<>> /\ readPos = 0
    /\ chunks = Undefined /\ flushed = FALSE /\ pushed = <<>> /\ thrown = <<>>

SubstNext == transform \/ flush

(***************************************************************************)
(* SpecChunk: one RegexMatch instance fed its input in chunks of any size. *)
(***************************************************************************)
\* The input is cut at no more than MaxCuts places.
MaxCuts == 2

\* The variables of these runs: one whose value is plain, and with it one
\* whose value holds a token.
ChunkVariableSets ==
    { << [name |-> <<"A">>, value |-> <<"x">>] >>,
      << [name |-> <<"A">>, value |-> <<"x">>],
         [name |-> <<"B">>, value |-> Token(<<"A">>)] >> }

ChunkInit ==
    /\ input \in Contents
    /\ optsPattern \in {NoPattern} \cup PatternSources
    /\ argVars \in ChunkVariableSets
    /\ readPos = 0
    /\ chunks = Undefined
    /\ flushed = FALSE
    /\ pushed = <<>>
    /\ thrown = <<>>

\* The stream calls transform with a chunk of any length: the next n bytes,
\* and all that is left once the input has been cut MaxCuts times.
transformAnyChunk ==
    /\ readPos < Len(input)
    /\ \E n \in 1..(Len(input) - readPos) :
        /\ Len(chunks) < MaxCuts \/ n = Len(input) - readPos
        /\ chunks' = TransformChunks(chunks, SubSeq(input, readPos + 1, readPos + n))
        /\ pushed' = pushed \o TransformOutput(SubSeq(input, readPos + 1, readPos + n))
        /\ readPos' = readPos + n
    /\ UNCHANGED <<input, optsPattern, argVars, flushed, thrown>>
    /\ UNCHANGED notSubst

ChunkNext == transformAnyChunk \/ flush


(***************************************************************************)
(* The specifications: each runs one part of the model and leaves the      *)
(* others idle.                                                            *)
(***************************************************************************)
InitSubst == SubstInit /\ WalkIdle /\ DestIdle /\ RunIdle /\ MkdirIdle /\ ExtIdle /\ ArgsIdle
SpecSubst == InitSubst /\ [][SubstNext]_allVars

InitWalk == WalkInit /\ SubstIdle /\ DestIdle /\ RunIdle /\ MkdirIdle /\ ExtIdle /\ ArgsIdle
SpecWalk == InitWalk /\ [][WalkNext]_allVars

\* The walk under the scheduling of node: the continuation of an await whose
\* promise has resolved is run in the end.
SpecWalkFair ==
    SpecWalk /\ WF_allVars(walkReadRoot) /\ WF_allVars(walkWhile) /\ WF_allVars(walkFor)

InitDest == DestInit /\ SubstIdle /\ WalkIdle /\ RunIdle /\ MkdirIdle /\ ExtIdle /\ ArgsIdle
SpecDest == InitDest /\ [][DestNext]_allVars

InitRun == RunInit /\ SubstIdle /\ WalkIdle /\ DestIdle /\ MkdirIdle /\ ExtIdle /\ ArgsIdle
SpecRun == InitRun /\ [][RunNext]_allVars

InitMkdir == MkdirInit /\ SubstIdle /\ WalkIdle /\ DestIdle /\ RunIdle /\ ExtIdle /\ ArgsIdle
SpecMkdir == InitMkdir /\ [][MkdirNext]_allVars

InitChunk == ChunkInit /\ WalkIdle /\ DestIdle /\ RunIdle /\ MkdirIdle /\ ExtIdle /\ ArgsIdle
SpecChunk == InitChunk /\ [][ChunkNext]_allVars

InitExt == ExtInit /\ SubstIdle /\ WalkIdle /\ DestIdle /\ RunIdle /\ MkdirIdle /\ ArgsIdle
SpecExt == InitExt /\ [][ExtNext]_allVars

InitArgs ==
    ArgsInit /\ SubstIdle /\ WalkIdle /\ DestIdle /\ RunIdle /\ MkdirIdle /\ ExtIdle
SpecArgs == InitArgs /\ [][ArgsNext]_allVars

(***************************************************************************)
(* What the claims about the substitution transform speak of.              *)
(***************************************************************************)
\* The text of the file.
InputText == Utf8Decode(input)

\* The placeholder tokens of the text: every match of the PlaceholderPattern.
InputTokens == Range(ScanFrom(InputText, 1, RegexMatchPattern(optsPattern).cls))

\* The tokens no variable name matches.
UnresolvedTokens == {t \in InputTokens : ~SomeVarMatches(argVars, t)}

\* The value paired with a token: that of the first variable, in key order,
\* whose name matches it.
ValueOf(vars, token) ==
    LET first == CHOOSE v \in 1..Len(vars) :
                     /\ KeyRegexTest(vars[v].name, token)
                     /\ \A u \in 1..(v - 1) : ~KeyRegexTest(vars[u].name, token)
    IN  vars[first].value

RECURSIVE Substituted(_, _, _, _)
\* The text with every token, where it occurs, replaced by its value.
Substituted(s, i, cls, vars) ==
    IF i > Len(s) THEN <<>>
    ELSE LET m == MatchLenAt(s, i, cls)
         IN  IF m > 0
             THEN ValueOf(vars, SubSeq(s, i, i + m - 1)) \o Substituted(s, i + m, cls, vars)
             ELSE <<s[i]>> \o Substituted(s, i + 1, cls, vars)

\* C1: whenever the text holds a token that no variable name matches, flush
\* fails, hands nothing to its callback, and its error lists exactly the
\* unresolved tokens.
C1_UnresolvedTokenFailsListingExactly ==
    (flushed /\ UnresolvedTokens # {}) =>
        /\ pushed = <<>>
        /\ Range(thrown) = UnresolvedTokens

\* C1 under the default pattern only: the case the code gets right.
C1_DefaultPatternOnly ==
    (flushed /\ ~optsPattern.given /\ UnresolvedTokens # {}) =>
        /\ pushed = <<>>
        /\ Range(thrown) = UnresolvedTokens

\* C3: whenever every token of the text is matched by some variable name,
\* flush succeeds, its output is the text with every occurrence of every
\* token replaced by the token's value, and no token is left in the output.
C3_ResolvedTokensAllReplaced ==
    (flushed /\ UnresolvedTokens = {}) =>
        /\ thrown = <<>>
        /\ Len(pushed) = 1
        /\ pushed[1] = Utf8Encode(Substituted(InputText, 1,
                                   RegexMatchPattern(optsPattern).cls, argVars))
        /\ \A t \in InputTokens : ~Includes(Utf8Decode(pushed[1]), t)

\* C8: whenever the text holds no token, the output is the input, byte for
\* byte (the empty file included).
C8_NoTokenOutputIsInput ==
    (flushed /\ InputTokens = {}) =>
        /\ thrown = <<>>
        /\ Concat(pushed) = input

\* What flush does with the whole input under a pattern that scans globally.
GlobalScanResult(cls) == Flush(<<input>>, [cls |-> cls, global |-> TRUE], argVars)

\* C15: with the pattern overridden by --pattern, flush does what it does
\* with the same pattern scanning globally: every match in the text is found
\* and checked against the variables, it fails on the same texts with the
\* same tokens, and it emits the same output.
C15_OverriddenPatternScansGlobally ==
    (flushed /\ optsPattern.given) =>
        LET r == GlobalScanResult(optsPattern.cls)
        IN  /\ thrown = r.unresolved
            /\ pushed = IF r.threw THEN <<>> ELSE <<r.data>>

\* C15 for the texts that hold at most one match of the pattern: the case the
\* code gets right.
C15_AtMostOneMatch ==
    (flushed /\ optsPattern.given /\ Len(ScanFrom(InputText, 1, optsPattern.cls)) <= 1) =>
        LET r == GlobalScanResult(optsPattern.cls)
        IN  /\ thrown = r.unresolved
            /\ pushed = IF r.threw THEN <<>> ELSE <<r.data>>

\* C16: under the default pattern, when flush succeeds and the value paired
\* with a token of the text itself holds a token, that value stands in the
\* output as it is: what a substitution has put in is not substituted again.
C16_InsertedTokensStayVerbatim ==
    (flushed /\ ~optsPattern.given /\ UnresolvedTokens = {} /\ Len(pushed) = 1) =>
        \A t \in InputTokens :
            ScanFrom(ValueOf(argVars, t), 1, RegexMatchPattern(optsPattern).cls) # <<>>
                => Includes(Utf8Decode(pushed[1]), ValueOf(argVars, t))

\* The key orders in which an object with the entries of vars can list them.
KeyOrders(vars) == {vs \in VariableSets : Range(vs) = Range(vars)}

\* What flush does with the whole input when the variables come in order vs.
ResultWith(vs) == Flush(<<input>>, RegexMatchPattern(optsPattern), vs)

\* C18: what flush does depends on the variables as a mapping only: listed
\* in any other order, the same entries give the same output or the same
\* failure.
C18_VariableOrderIrrelevant ==
    flushed =>
        \A vs \in KeyOrders(argVars) :
            /\ thrown = ResultWith(vs).unresolved
            /\ pushed = IF ResultWith(vs).threw THEN <<>> ELSE <<ResultWith(vs).data>>

\* C18 for the texts none of whose tokens is matched by two variable names:
\* the case the code gets right.
C18_OneNamePerToken ==
    (flushed /\ \A t \in InputTokens :
                    Cardinality({v \in 1..Len(argVars) : KeyRegexTest(argVars[v].name, t)}) <= 1) =>
        \A vs \in KeyOrders(argVars) :
            /\ thrown = ResultWith(vs).unresolved
            /\ pushed = IF ResultWith(vs).threw THEN <<>> ELSE <<ResultWith(vs).data>>

\* C19: while chunks arrive (ACCUMULATING) the instance only keeps them,
\* unchanged and in order, and nothing has been emitted or reported; flush
\* runs only once the whole input has arrived; after it the instance has
\* either emitted one buffer and reported nothing (EMITTING) or reported
\* unresolved tokens and emitted nothing (FAILED).
C19_AccumulateThenResolveOnce ==
    /\ Concat(chunks) = SubSeq(input, 1, readPos)
    /\ ~flushed => (pushed = <<>> /\ thrown = <<>>)
    /\ flushed =>
           /\ readPos = Len(input)
           /\ \/ Len(pushed) = 1 /\ thrown = <<>>
              \/ pushed = <<>> /\ thrown # <<>>

\* An instance that took its input in several chunks, one of them cutting a
\* token, has emitted its output with the token replaced.
C19_Witness ==
    /\ flushed
    /\ Len(chunks) >= 2
    /\ Len(pushed) = 1 /\ pushed[1] # input
    /\ InputTokens # {}

\* The places where the input has been cut: the lengths of what the first
\* k chunks hold together.
Cuts == {Len(Concat(SubSeq(chunks, 1, k))) : k \in 1..(Len(chunks) - 1)}

\* C20: however the input is cut into chunks, flush does what it does with
\* the whole input delivered as one chunk: it emits the same output or
\* reports the same unresolved tokens.
C20_SplitIntoChunksIrrelevant ==
    flushed =>
        LET r == Flush(<<input>>, RegexMatchPattern(optsPattern), argVars)
        IN  /\ thrown = r.unresolved
            /\ pushed = IF r.threw THEN <<>> ELSE <<r.data>>

\* An input has been flushed whose chunks cut a token in two, and the token
\* has been replaced.
C20_Witness ==
    /\ flushed
    /\ Len(pushed) = 1 /\ pushed[1] # input
    /\ \E c \in Cuts : \E i \in 1..Len(InputText) :
           LET m == MatchLenAt(InputText, i, RegexMatchPattern(optsPattern).cls)
           IN  m > 0 /\ i <= c /\ c < i + m - 1

\* foundMatches as flush has built it: over the matches of the buffered text.
FoundByFlush ==
    FoundMatches(argVars, StringMatch(Utf8Decode(Concat(chunks)), RegexMatchPattern(optsPattern)))

\* C21: after flush foundMatches holds at most one record for every token
\* string, however often the token occurs in the text and however many
\* variable names match it.
C21_OneRecordPerToken ==
    flushed =>
        \A i, j \in 1..Len(FoundByFlush) :
            FoundByFlush[i].matchStr = FoundByFlush[j].matchStr => i = j

\* C21 for the texts whose tokens occur once each and are matched by one
\* variable name at most: the case the code gets right.
C21_TokensOnceAndOneName ==
    (/\ flushed
     /\ Len(ScanFrom(InputText, 1, RegexMatchPattern(optsPattern).cls)) = Cardinality(InputTokens)
     /\ \A t \in InputTokens :
            Cardinality({v \in 1..Len(argVars) : KeyRegexTest(argVars[v].name, t)}) <= 1) =>
        \A i, j \in 1..Len(FoundByFlush) :
            FoundByFlush[i].matchStr = FoundByFlush[j].matchStr => i = j

\* The tokens flush has found: the matches of the buffered text.
FoundTokens == StringMatch(InputText, RegexMatchPattern(optsPattern))

RECURSIVE LiteralSubstituted(_, _, _, _)
\* The text with every literal occurrence of a found token replaced, in one
\* pass, by the value of the first variable whose name matches the token; the
\* value is inserted character for character.
LiteralSubstituted(s, i, tokens, vars) ==
    IF i > Len(s) THEN <<>>
    ELSE IF \E t \in tokens : OccursAt(t, s, i)
         THEN LET t == CHOOSE u \in tokens : OccursAt(u, s, i)
              IN  ValueOf(vars, t) \o LiteralSubstituted(s, i + Len(t), tokens, vars)
         ELSE <<s[i]>> \o LiteralSubstituted(s, i + 1, tokens, vars)

\* C22: a found token is resolved exactly when some variable name matches
\* inside it: flush fails exactly when some found token is matched by no
\* name, naming those tokens, and otherwise every found token is replaced by
\* the value of the first matching variable in key order.
C22_FirstMatchingVariableWins ==
    (flushed /\ FoundTokens # <<>>) =>
        /\ (thrown # <<>>) <=> (\E t \in Range(FoundTokens) : ~SomeVarMatches(argVars, t))
        /\ Range(thrown) = {t \in Range(FoundTokens) : ~SomeVarMatches(argVars, t)}
        /\ thrown = <<>> =>
               pushed = <<Utf8Encode(LiteralSubstituted(InputText, 1, Range(FoundTokens), argVars))>>

\* A value that replace() inserts as it stands and that brings no token in.
PlainValue(value) == \A k \in 1..Len(value) : value[k] \notin {"$", "{", "}"}

\* C22 when every value is plain and no token has an all-digit name: the
\* case the code gets right.
C22_PlainValues ==
    (/\ flushed
     /\ FoundTokens # <<>>
     /\ \A v \in 1..Len(argVars) : PlainValue(argVars[v].value)
     /\ \A t \in Range(FoundTokens) : TokenRegexLiteral(t) = t) =>
        /\ (thrown # <<>>) <=> (\E t \in Range(FoundTokens) : ~SomeVarMatches(argVars, t))
        /\ thrown = <<>> =>
               pushed = <<Utf8Encode(LiteralSubstituted(InputText, 1, Range(FoundTokens), argVars))>>

\* A state where two names match the one token and the first one's plain
\* value has been inserted.
C22_PlainValuesCase ==
    /\ flushed /\ thrown = <<>> /\ Len(FoundTokens) = 1
    /\ Len(argVars) = 2
    /\ \A v \in 1..2 : KeyRegexTest(argVars[v].name, FoundTokens[1]) /\ PlainValue(argVars[v].value)
    /\ argVars[1].value # argVars[2].value
    /\ pushed = <<Utf8Encode(LiteralSubstituted(InputText, 1, Range(FoundTokens), argVars))>>

\* C23: replacement is literal on both sides.  When flush has recorded one
\* pairing, its output is the text with exactly the literal occurrences of
\* the token replaced, each by the value character for character.
C23_ReplacementIsLiteral ==
    (flushed /\ thrown = <<>> /\ Len(FoundByFlush) = 1) =>
        pushed = <<Utf8Encode(LiteralSubstituted(InputText, 1, {FoundByFlush[1].matchStr}, argVars))>>

\* C23 for a plain value and a token whose name is not all digits: the case
\* the code gets right.
C23_PlainValueAndName ==
    (/\ flushed /\ thrown = <<>> /\ Len(FoundByFlush) = 1
     /\ PlainValue(FoundByFlush[1].value)
     /\ TokenRegexLiteral(FoundByFlush[1].matchStr) = FoundByFlush[1].matchStr) =>
        pushed = <<Utf8Encode(LiteralSubstituted(InputText, 1, {FoundByFlush[1].matchStr}, argVars))>>

(***************************************************************************)
(* What the claims about the walker speak of.                              *)
(***************************************************************************)
\* The leaves of the tree: its entries that are no directories.
Leaves == {n \in tree : ~n.isDir}

\* C7: the walk returns exactly the leaves of the tree, each with its full
\* path below basePath, no directory and no path twice.
C7_EnumerateReturnsExactlyLeaves ==
    walkPc = "done" =>
        /\ Range(walkResult) = {BasePath \o n.path : n \in Leaves}
        /\ Len(walkResult) = Cardinality(Leaves)

\* A finished walk of a tree with a leaf two levels down and an empty directory.
C7_Witness ==
    /\ walkPc = "done"
    /\ \E n \in Leaves : Len(n.path) = 2 /\ BasePath \o n.path \in Range(walkResult)
    /\ \E d \in tree : d.isDir /\ readdir(tree, d.path) = <<>>

\* C17: on every tree getDirRecursiveSync and the asynchronous walk end the
\* same way: both fail, or both return the same paths in the same order.
C17_SyncAndAsyncAgree ==
    (walkPc \in {"done", "failed"} /\ syncPc \in {"done", "failed"}) =>
        /\ syncPc = walkPc
        /\ syncResult = walkResult

\* C17 where node has fs.Dirent: the case the code gets right.
C17_WithDirent ==
    (hasDirent /\ walkPc \in {"done", "failed"} /\ syncPc \in {"done", "failed"}) =>
        /\ syncPc = walkPc
        /\ syncResult = walkResult

\* The directories whose read has gone wrong: readdir has been called on
\* them and its promise has not resolved.
FailedReads ==
    {d \in Range(readLog) : ReaddirSettles(tree, d, hasDirent, noRead, noStat) # "resolve"}

\* C24: when the read of a directory goes wrong, of basePath or of a
\* directory at any depth, the walk fails as a whole and returns no paths.
C24_ReadErrorFailsTheWalk ==
    FailedReads # {} => (walkPc = "failed" /\ walkResult = <<>>)

\* C24 for the errors of fs.readdir itself: the case the code gets right.
C24_ReaddirErrors ==
    (\E d \in Range(readLog) : d \in noRead) => (walkPc = "failed" /\ walkResult = <<>>)

\* A walk that failed on a directory two levels down.
C24_ReaddirErrorsCase ==
    walkPc = "failed" /\ \E d \in noRead : Len(d) = 2 /\ d \in Range(readLog)

(***************************************************************************)
(* What the claims about the destination path speak of.                    *)
(***************************************************************************)
\* The destination root joined with the file's path below the template root.
ExpectedDest == PathJoin(destDir, JoinSegments(relPath))

\* Whether the template name occurs again in the path below the template root.
NameOccursAgain == Includes(JoinSegments(relPath), templateName)

\* C9: the destination computed for a file is the destination root joined
\* with the file's path below the template root, whatever that path is.
C9_DestIsRootJoinedWithRelativePath ==
    destPc = "done" => dest = ExpectedDest

\* C9 where the template name does not occur again below the template root:
\* the case the code gets right.
C9_NameNotRepeated ==
    (destPc = "done" /\ ~NameOccursAgain) => dest = ExpectedDest

(***************************************************************************)
(* Claims about a run (SpecRun).                                           *)
(***************************************************************************)
\* What transformCopy does with file f.
Kind(f) == Classify(filePaths[f].name, textExts)

\* The substitution of file f failed: its flush threw.
SubstitutionFailed(f) == Kind(f) = "pipe" /\ task[f].flushed /\ task[f].pc = "failed"

\* The copy of file f has failed, in whichever way.
CopyFailed(f) == task[f].pc \in {"failed", "rejected"}

\* The copy of file f is over: its promise has settled or can no longer settle.
CopyOver(f) == task[f].pc \in {"resolved", "rejected", "failed"}

\* What the destination of text file f holds once all its content has gone
\* through the substitution.
CompleteOutput(f) == Flush(<<filePaths[f].content>>, RegexMatchPattern(RunPattern), RunVars).data

\* C2: when the substitution of a text file fails on an unresolved token, no
\* destination file is written: the destination did not exist before the
\* run and does not exist after the failure.
C2_FailedSubstitutionWritesNoFile ==
    \A f \in Files :
        (SubstitutionFailed(f) /\ ~destBefore[f].exists) => ~destFs[f].exists

\* C4: when the copy of a file fails (directory creation, read, write, or an
\* unresolved placeholder), the run ends with exec's promise rejected: it is
\* neither resolved nor left pending.
C4_FailureRejectsRun ==
    (procState = "exited" /\ \E f \in Files : CopyFailed(f)) => execState = "rejected"

\* C5: the failure of one file does not abort the others: when the failure is
\* reported and the run is over, the copy of every other file is over too.
C5_SiblingsRunToCompletion ==
    \A f \in Files :
        (procState = "exited" /\ CopyFailed(f)) => \A g \in Files \ {f} : CopyOver(g)

\* C6: exec's promise resolves only after the copy of every file has
\* resolved; by then every binary copy is complete and the write stream of
\* every text file is closed with its complete content written.
C6_ResolvedMeansAllWritten ==
    execState = "resolved" =>
        \A f \in Files :
            /\ task[f].pc = "resolved"
            /\ Kind(f) = "copy" => destFs[f] = [exists |-> TRUE, data |-> filePaths[f].content]
            /\ Kind(f) = "pipe" => /\ task[f].ws = "closed"
                                   /\ destFs[f] = [exists |-> TRUE, data |-> CompleteOutput(f)]

\* A run has resolved that copied a binary file and transformed a text file
\* with content.
C6_Witness ==
    /\ execState = "resolved"
    /\ \E f \in Files : Kind(f) = "copy"
    /\ \E f \in Files : Kind(f) = "pipe" /\ filePaths[f].content # <<>>

\* C10, as stated: a file with a blacklisted extension is never written and
\* its copy never raises an error, whether or not the extension is in the
\* text list.
C10_BlacklistedNeverFails ==
    \A f \in Files :
        getExtname(filePaths[f].name) \in TRANSFORM_BLACKLIST =>
            /\ destFs[f] = destBefore[f]
            /\ task[f].pc \in {"mkdir", "resolved"}

\* C10, amended: a file with a blacklisted extension is never written and
\* gets no streams, whether or not the extension is in the text list; once
\* the directory of its destination has been made its copy has resolved,
\* and only the making of that directory can fail it.
C10_BlacklistedSucceedsOnceDirMade ==
    \A f \in Files :
        getExtname(filePaths[f].name) \in TRANSFORM_BLACKLIST =>
            /\ destFs[f] = destBefore[f]
            /\ task[f].rs = "none" /\ task[f].ws = "none"
            /\ task[f].pc \in {"mkdir", "failed", "resolved"}
            /\ task[f].pc = "failed" => (exitCause = "unhandledRejection" /\ execState = "pending")

\* The copy of a blacklisted file whose extension is in the text list has
\* resolved.
C10_Witness ==
    \E f \in Files :
        /\ getExtname(filePaths[f].name) \in TRANSFORM_BLACKLIST
        /\ getExtname(filePaths[f].name) \in textExts
        /\ task[f].pc = "resolved"

\* File f is binary: its extension is neither blacklisted nor in the text list.
IsBinary(f) ==
    /\ getExtname(filePaths[f].name) \notin TRANSFORM_BLACKLIST
    /\ getExtname(filePaths[f].name) \notin textExts

\* C11: a binary file never goes through the substitution transform (it gets
\* no streams and no RegexMatch instance is fed with it), nothing but its
\* source content is ever put at its destination, and once its copy has
\* resolved the destination holds the source content byte for byte, tokens
\* and bytes that are not UTF-8 included.
C11_BinaryCopiedByteForByte ==
    \A f \in Files :
        IsBinary(f) =>
            /\ task[f].rs = "none" /\ task[f].ws = "none"
            /\ task[f].chunks = Undefined /\ ~task[f].flushed
            /\ destFs[f] \in {destBefore[f], [exists |-> TRUE, data |-> filePaths[f].content]}
            /\ task[f].pc = "resolved" => destFs[f] = [exists |-> TRUE, data |-> filePaths[f].content]

\* The copy of a binary file has resolved whose content holds a token that a
\* variable resolves and a byte the transform would not keep.
C11_Witness ==
    \E f \in Files :
        /\ IsBinary(f)
        /\ task[f].pc = "resolved"
        /\ execState = "resolved"
        /\ Flush(<<filePaths[f].content>>, RegexMatchPattern(RunPattern), RunVars).data
               # filePaths[f].content

(***************************************************************************)
(* Claims about makeDir (SpecMkdir).                                       *)
(***************************************************************************)
\* No regular file lies on the chain.
NoFileOnChain == \A p \in ChainPaths : dirFs[p] # "file"

\* The system has refused no fs.mkdir.
NoneRefused == \A c \in Callers : "EACCES" \notin mkSeen[c]

\* C12: where no regular file is in the way and the system refuses nothing,
\* makeDir never fails, whatever the chain holds already and however the
\* fs.mkdir calls of the two callers interleave: a call is under way with an
\* fs.mkdir in flight, or it has resolved and its directory exists.
C12_MakeDirSafeToRace ==
    (NoFileOnChain /\ NoneRefused) =>
        \A c \in Callers :
            /\ mkStatus[c] \in {"pending", "resolved"}
            /\ mkStatus[c] = "pending" => MkdirInFlight(c)
            /\ mkStatus[c] = "resolved" => dirFs[mkTarget[c]] = "dir"

\* Two callers have made the same directory chain at the same time: both
\* found the parent missing, one found the other had made a directory before
\* it, and both have resolved.
C12_Witness ==
    /\ NoFileOnChain /\ NoneRefused
    /\ mkTarget[1] = mkTarget[2]
    /\ \A c \in Callers : mkStatus[c] = "resolved" /\ "ENOENT" \in mkSeen[c]
    /\ \E c \in Callers : "EEXIST" \in mkSeen[c]

\* C13: whatever the destination holds before the run, nothing, the files an
\* earlier run with the same inputs left or other content, the destination of
\* every file whose copy has resolved holds what a first run into an empty
\* destination writes, no more and no less, and so does every destination
\* once the run has resolved.
C13_RerunGivesSameFiles ==
    /\ \A f \in Files :
           (task[f].pc = "resolved" /\ Kind(f) # "skip") =>
               destFs[f] = RunOutput(filePaths[f], textExts)
    /\ execState = "resolved" =>
           \A f \in Files : Kind(f) # "skip" => destFs[f] = RunOutput(filePaths[f], textExts)

\* A run has resolved into a destination that held, for a text file with
\* content, the file an earlier run left, and for another file nothing or
\* other content.
C13_Witness ==
    /\ execState = "resolved"
    /\ \E f \in Files :
        /\ Kind(f) = "pipe"
        /\ destBefore[f] = RunOutput(filePaths[f], textExts)
        /\ destBefore[f].data # <<>>
        /\ \E g \in Files \ {f} :
            /\ Kind(g) # "skip"
            /\ destBefore[g] \in {Absent, Stale}

(***************************************************************************)
(* Claims about getExtname (SpecExt).                                      *)
(***************************************************************************)
\* Everything after the last "." of a name, and the whole name when it has
\* no ".".
AfterLastDot(name) ==
    IF LastDot(name) = 0 THEN name ELSE SubSeq(name, LastDot(name) + 1, Len(name))

\* C14: the extension getExtname returns is everything after the last "." of
\* the base name, and the whole base name when it has no "."; for a dotfile
\* without a second "." that is its name after the leading dot.
C14_ExtnameIsAfterLastDot ==
    extPc = "done" => extResult = AfterLastDot(extName)

\* C14 for the base names that do not end in ".": the case the code gets
\* right.
C14_NameNotEndingInDot ==
    (extPc = "done" /\ extName[Len(extName)] # ".") => extResult = AfterLastDot(extName)

(***************************************************************************)
(* Claims about the files of one run side by side (SpecRun).               *)
(***************************************************************************)
\* What flush gives for file f when the file is processed alone.
FlushedAlone(f) == Flush(<<filePaths[f].content>>, RegexMatchPattern(RunPattern), RunVars)

\* C25: the files of a run do not disturb one another.  At every moment of
\* every interleaving the buffer of a text file's transform holds the chunks
\* read from that file and nothing else, and what its flush does, fail or
\* emit, and what reaches its destination is what processing the file alone
\* gives.
C25_FilesAreIndependent ==
    \A f \in Files :
        Kind(f) = "pipe" =>
            /\ Concat(task[f].chunks) = SubSeq(filePaths[f].content, 1, task[f].readPos)
            /\ task[f].flushed => (SubstitutionFailed(f) <=> FlushedAlone(f).threw)
            /\ (task[f].flushed /\ task[f].pc # "failed" /\ task[f].ws = "open") =>
                   destFs[f].data \o Concat(task[f].out) = FlushedAlone(f).data
            /\ task[f].pc = "resolved" => destFs[f] = [exists |-> TRUE, data |-> FlushedAlone(f).data]

\* Two text files under way at once: the first read to its end and not yet
\* flushed, the second with one of its two chunks read.
C25_Witness ==
    /\ Len(filePaths) = 2
    /\ \A f \in Files : Kind(f) = "pipe" /\ task[f].pc = "pipe" /\ ~task[f].flushed
    /\ task[1].chunks # Undefined /\ task[1].readPos = Len(filePaths[1].content)
    /\ Len(task[2].chunks) = 1 /\ task[2].readPos < Len(filePaths[2].content)

(***************************************************************************)
(* Claims about how makeDir settles (SpecMkdir).                           *)
(***************************************************************************)
\* C26: every makeDir call settles.  A call whose work has come to a stop,
\* with no fs.mkdir of its own chain in flight, has resolved or rejected; it
\* is never left pending.
C26_MakeDirAlwaysSettles ==
    \A c \in Callers : ~MkdirInFlight(c) => mkStatus[c] \in {"resolved", "rejected"}

\* C26 where fs.mkdir honours the recursive option, so that makeDir never
\* has to make a parent itself: the case the code gets right.
C26_RecursiveOptionHonoured ==
    mkRecursive =>
        \A c \in Callers : ~MkdirInFlight(c) => mkStatus[c] \in {"resolved", "rejected"}

\* A call that was refused with the recursive option honoured, and rejected.
C26_RecursiveOptionHonouredCase ==
    mkRecursive /\ \E c \in Callers : mkStatus[c] = "rejected" /\ "EACCES" \in mkSeen[c]

\* C27: whenever makeDir has resolved, the path it was given exists as a
\* directory, so that the destination's parent is there before transformCopy
\* copies or opens the destination.
C27_ResolvedMeansDirectoryExists ==
    \A c \in Callers : mkStatus[c] = "resolved" => dirFs[mkTarget[c]] = "dir"

\* C27 where the path given to makeDir is no regular file: the case the
\* code gets right.
C27_TargetNoRegularFile ==
    \A c \in Callers :
        (mkStatus[c] = "resolved" /\ dirFs[mkTarget[c]] # "file") => dirFs[mkTarget[c]] = "dir"

\* The other half of C27, in a run: as long as makeDir of a file's
\* destination directory has not completed, neither stream of the file has
\* been opened and the destination is as it was before the run.
C27_WriteOnlyAfterMakeDir ==
    \A f \in Files :
        task[f].pc = "mkdir" =>
            /\ task[f].rs = "none" /\ task[f].ws = "none"
            /\ destFs[f] = destBefore[f]

(***************************************************************************)
(* Claims about the end of the walk (SpecWalkFair).                        *)
(***************************************************************************)
\* The directories below basePath that the tree holds.
SubDirs == {n.path : n \in {m \in tree : m.isDir}}

\* No directory has been read twice.
ReadAtMostOnce == \A i, j \in 1..Len(readLog) : readLog[i] = readLog[j] => i = j

\* Every read so far has replaced its directory by the directory's listing:
\* the working list holds the entries of the directories read, except those
\* that were directories and have been read in their turn.
ListIsFrontier ==
    walkPc \in {"while", "for", "done"} =>
        /\ {files[k].name : k \in 1..Len(files)} =
               {n.path : n \in {m \in tree : Dirname(m.path) \in Range(readLog)
                                              /\ ~(m.isDir /\ m.path \in Range(readLog))}}
        /\ \A i, j \in 1..Len(files) : files[i].name = files[j].name => i = j

\* C28: the flattening loop terminates on every tree.  Every read replaces
\* the directory by its listing, no directory is read twice, and when its
\* reads succeed the walk comes to its end, with no directory left in the
\* working list and every directory of the tree read.
C28_FlatteningTerminates ==
    /\ [](ReadAtMostOnce /\ ListIsFrontier)
    /\ [](walkPc = "done" =>
            /\ \A k \in 1..Len(files) : ~files[k].isDir
            /\ Range(readLog) = {<<>>} \cup SubDirs)
    /\ (noStat = {} => <>(walkPc \in {"done", "failed"}))
    /\ ((noStat = {} /\ noRead = {}) => <>(walkPc = "done"))

\* A finished walk of a tree with a directory inside a directory.
C28_Witness ==
    /\ walkPc = "done"
    /\ \E d \in SubDirs : Len(d) = 2
    /\ Len(readLog) >= 3
    /\ walkResult # <<>>

(***************************************************************************)
(* Claims about the entry point (SpecArgs).                                *)
(***************************************************************************)
\* validate has succeeded.
Validated == mainPc \in {"validated", "loaded", "help", "exec"}

\* The action is run and no help flag is given.
RunsTemplate == toLowerCase(posArgs[1]) = ACTIONS_RUN /\ ~(optH \/ optHelp)

\* C29: whenever validate has succeeded the first argument is exactly the
\* name of an action module, so that loading the module never fails; and when
\* the action is run without a help flag the second argument names a
\* directory of TEMPLATE_DIR.
C29_ValidatedMeansActionAndTemplateExist ==
    /\ Validated =>
          /\ posArgs[1] \in ActionModules
          /\ RunsTemplate =>
                /\ Len(posArgs) >= 2
                /\ \E e \in templates : e.name = posArgs[2] /\ e.isDir
    /\ mainError # "MODULE_NOT_FOUND"

\* What validate does ensure: the first argument is the name of an action
\* module up to the case of its letters, and when the action is run without
\* a help flag the second argument is an entry of TEMPLATE_DIR.
C29_UpToCaseAndKind ==
    Validated =>
        /\ toLowerCase(posArgs[1]) \in ActionModules
        /\ RunsTemplate =>
              /\ Len(posArgs) >= 2
              /\ posArgs[2] \in ValidTemplates(templates)

\* The action was typed as the module is named, and has been started on a
\* template that exists.
C29_UpToCaseAndKindCase ==
    /\ mainPc = "exec"
    /\ posArgs[1] = ACTIONS_RUN
    /\ Len(posArgs) = 2 /\ \E e \in templates : e.name = posArgs[2] /\ e.isDir

=============================================================================
